---- MODULE Spec2Model ----
(***************************************************************************)
(* Mesh spatial-decomposition engine of the PSC slicer: the bounding       *)
(* volume tree (src/src/bvh.c), the partition index built on it, and the   *)
(* approximate-convex decomposer (src/src/convex_decomposition.c).         *)
(*                                                                         *)
(* Numbers.  Vertex coordinates are small integers, so every float sum and *)
(* comparison of the code is exact.  A centroid (a+b+c)/3.0f is kept as    *)
(* the numerator a+b+c ("thirds"); a comparison against a coordinate value *)
(* multiplies that value by 3.  Partition meshes have an X extent that is  *)
(* a multiple of num_partitions, so partition_width is an integer too.     *)
(*                                                                         *)
(* Recursion of the C code is an explicit stack of frames; each action is  *)
(* the code of one function between two recursive calls.                   *)
(***************************************************************************)
EXTENDS Integers, Sequences, FiniteSets

\* ------------------------------------------------------------------ bounds
MaxTriangles == 3        \* triangles in a mesh given to bvh_create
MaxLeaf == 2             \* max_triangles_per_leaf ranges over 0..MaxLeaf
MaxAllocFailures == 1    \* allocation failures injected in one call
MaxPartTriangles == 2    \* triangles in a mesh given to spatial_partition_create
MaxPartitions == 3       \* num_partitions ranges over 0..MaxPartitions
MaxDecompTriangles == 10 \* largest mesh given to the decomposer
MaxParts == 2            \* max_parts ranges over 0..MaxParts
MaxDecompDepth == 3      \* frames of approximate_decompose_part that are run
MaxVoxelTriangles == 3   \* triangles in a mesh given to voxel_based_decomposition
MaxHierDepth == 2        \* max_depth of hierarchical_decomposition ranges over 0..MaxHierDepth

\* ------------------------------------------------------- program constants
NULL == 0
FLT_MAX == 1000000
BVH_MAX_DEPTH == 20
BVH_LEAF == "BVH_LEAF"
BVH_INTERNAL == "BVH_INTERNAL"
PARTITION_LEAF_SIZE == 10
MIN_SPLIT_TRIANGLES == 10
MIN_HULL_VERTICES == 4
VOXEL_INITIAL_PARTS == 100
SortAxes == {"SORT_X", "SORT_Y", "SORT_Z", "SORT_XY", "SORT_XZ", "SORT_YZ", "SORT_XYZ"}

VARIABLES
    stl,               \* the mesh view (stl_file_t)
    pc,                \* position of the calling program
    oom,               \* allocation failures that may still be injected
    oom_budget,        \* allocation failures that could be injected at the start
    max_triangles_per_leaf,
    bvh,               \* bvh_tree_t header: status, root, allocation counts
    nodes,             \* heap of bvh_node_t, indexed by node id 1..Len(nodes)
    triangle_indices,  \* the index array bvh_create passes down the recursion
    tmp_frees,         \* times that index array was released
    stack,             \* call stack of bvh_build_recursive
    ret,               \* value returned by the last finished recursive call
    partition,         \* spatial_partition_t under construction or returned
    query,             \* last region query on the partition index and its result
    parts,             \* heap of convex_part_t, indexed by part id 1..Len(parts)
    decomp,            \* convex_decomposition_t under construction or returned
    dstack,            \* call stack of approximate_decompose_part
    dparams            \* decomposition_params_t of the running call

bvhVars == <<max_triangles_per_leaf, bvh, nodes, triangle_indices, tmp_frees, stack, ret>>
partVars == <<partition, query>>
decompVars == <<parts, decomp, dstack, dparams>>
vars == <<stl, pc, oom, oom_budget, bvhVars, partVars, decompVars>>

\* ------------------------------------------------------------------- mesh
\* A triangle is <<v0, v1, v2>>, a vertex <<x, y, z>>.
BvhV0 == {<<0, 0, 0>>, <<6, 0, 3>>}
BvhV1 == {<<0, 6, 0>>, <<6, 3, 0>>}
BvhV2 == {<<3, 0, 6>>}
BvhTriangles == {<<a, b, c>> : a \in BvhV0, b \in BvhV1, c \in BvhV2}

RECURSIVE SeqsUpTo(_, _)
SeqsUpTo(S, n) ==
    IF n = 0 THEN {<<>>}
    ELSE LET shorter == SeqsUpTo(S, n - 1)
         IN shorter \cup {Append(s, x) : s \in {t \in shorter : Len(t) = n - 1}, x \in S}

ExpandByVertex(b, v) ==
    <<IF v[1] < b[1] THEN v[1] ELSE b[1],
      IF v[2] < b[2] THEN v[2] ELSE b[2],
      IF v[3] < b[3] THEN v[3] ELSE b[3],
      IF v[1] > b[4] THEN v[1] ELSE b[4],
      IF v[2] > b[5] THEN v[2] ELSE b[5],
      IF v[3] > b[6] THEN v[3] ELSE b[6]>>

ExpandByTriangle(b, t) == ExpandByVertex(ExpandByVertex(ExpandByVertex(b, t[1]), t[2]), t[3])

EmptyBounds == <<FLT_MAX, FLT_MAX, FLT_MAX, -FLT_MAX, -FLT_MAX, -FLT_MAX>>

RECURSIVE BoundsOfTriangles(_, _)
BoundsOfTriangles(b, ts) ==
    IF ts = <<>> THEN b
    ELSE BoundsOfTriangles(ExpandByTriangle(b, Head(ts)), Tail(ts))

\* stl_calculate_bounds: leaves the bounds untouched for an empty mesh (they
\* are never read then: every builder rejects the empty mesh first).
stl_calculate_bounds(ts) ==
    IF Len(ts) = 0 THEN <<0, 0, 0, 0, 0, 0>> ELSE BoundsOfTriangles(EmptyBounds, ts)

MeshOf(ts) ==
    [is_null |-> FALSE, num_triangles |-> Len(ts), triangles |-> ts,
     bounds |-> stl_calculate_bounds(ts)]

NullMesh == [is_null |-> TRUE, num_triangles |-> 0, triangles |-> <<>>,
             bounds |-> <<0, 0, 0, 0, 0, 0>>]

BvhMeshes == {MeshOf(ts) : ts \in SeqsUpTo(BvhTriangles, MaxTriangles)} \cup {NullMesh}

\* ------------------------------------------------------------ allocation
\* malloc either succeeds or, while failures may still be injected, fails.
AllocOutcomes == IF oom > 0 THEN {TRUE, FALSE} ELSE {TRUE}

\* ------------------------------------------------------------- BVH helpers
\* bvh_get_center_coordinate, in thirds; an axis beyond Z falls back to X.
bvh_get_center_coordinate_x(t, axis) == t[1][1] + t[2][1] + t[3][1]

bvh_get_center_coordinate(t, axis) ==
    LET k == IF axis \in {0, 1, 2} THEN axis + 1 ELSE 1
    IN t[1][k] + t[2][k] + t[3][k]

\* bvh_compare_triangles on two triangle indices (0-based).
bvh_compare_triangles(a, b, axis) ==
    LET ca == bvh_get_center_coordinate(stl.triangles[a + 1], axis)
        cb == bvh_get_center_coordinate(stl.triangles[b + 1], axis)
    IN IF ca < cb THEN -1 ELSE IF ca > cb THEN 1 ELSE 0

IndexPermutations(n) == {f \in [1..n -> 1..n] : \A i, j \in 1..n : f[i] = f[j] => i = j}

\* bvh_sort_triangles_by_axis: qsort_r is not a stable sort, so the result is
\* any arrangement of the segment that the comparator accepts as ordered.
bvh_sort_triangles_by_axis(seg, axis) ==
    IF Len(seg) = 0 THEN {seg}
    ELSE {s \in {[i \in 1..Len(seg) |-> seg[f[i]]] : f \in IndexPermutations(Len(seg))} :
            \A i \in 1..(Len(s) - 1) : bvh_compare_triangles(s[i], s[i + 1], axis) <= 0}

SegmentIgnoringOffset(arr, off, n) == SubSeq(arr, 1, n)

\* the n entries of array arr that start at offset off (memcpy source)
Segment(arr, off, n) == SubSeq(arr, off + 1, off + n)

WriteSegment(arr, off, seg) ==
    [i \in 1..Len(arr) |-> IF i > off /\ i <= off + Len(seg) THEN seg[i - off] ELSE arr[i]]

SplitMidZero(n) == 0

SplitMid(n) == n \div 2

RECURSIVE TrianglesAt(_)
TrianglesAt(idx) ==
    IF idx = <<>> THEN <<>> ELSE <<stl.triangles[Head(idx) + 1]>> \o TrianglesAt(Tail(idx))

\* bvh_calculate_bounds, leaf branch
LeafBounds(old, idx) ==
    IF Len(idx) = 0 THEN old ELSE BoundsOfTriangles(EmptyBounds, TrianglesAt(idx))

InternalBoundsLeftOnly(lb, rb) == lb

\* bvh_calculate_bounds, internal branch
InternalBounds(lb, rb) ==
    [k \in 1..6 |->
        IF k <= 3 THEN (IF rb[k] < lb[k] THEN rb[k] ELSE lb[k])
        ELSE (IF rb[k] > lb[k] THEN rb[k] ELSE lb[k])]

\* a freshly allocated node: its fields are not yet written
NewNode == [type |-> "unset", bounds |-> EmptyBounds, triangle_indices |-> <<>>,
            num_triangles |-> 0, has_indices |-> FALSE, left |-> NULL, right |-> NULL,
            depth |-> 0, frees |-> 0, idx_frees |-> 0]

bvh_free_node_shallow(ns, id) ==
    IF id = NULL THEN ns ELSE [ns EXCEPT ![id].frees = @ + 1]

RECURSIVE bvh_free_node(_, _)
bvh_free_node(ns, id) ==
    IF id = NULL THEN ns
    ELSE LET n == ns[id]
             inner == IF n.type = BVH_INTERNAL
                      THEN bvh_free_node(bvh_free_node(ns, n.left), n.right)
                      ELSE IF n.type = BVH_LEAF /\ n.has_indices
                      THEN [ns EXCEPT ![id].idx_frees = @ + 1]
                      ELSE ns
         IN [inner EXCEPT ![id].frees = @ + 1]

Frame(off, n, depth) ==
    [pc |-> "call", off |-> off, n |-> n, depth |-> depth, node |-> NULL, left |-> NULL]

Top == stack[Len(stack)]
Pop == SubSeq(stack, 1, Len(stack) - 1)
ReplaceTop(f) == [stack EXCEPT ![Len(stack)] = f]

NoPartition == [status |-> "none", num_partitions |-> 0, partition_ids |-> <<>>,
                partition_bounds |-> <<>>, bvh_set |-> FALSE,
                frees |-> 0, ids_frees |-> 0, bounds_frees |-> 0]

NoQuery == [called |-> FALSE, bounds |-> <<0, 0, 0, 0, 0, 0>>, result_null |-> TRUE,
            result |-> <<>>, num_triangles |-> 0]

NoParams == [max_parts |-> 0, concavity_tolerance |-> 0, max_depth |-> 0,
             voxel_size |-> 0, min_triangles_per_voxel |-> 0]

NoDecomposition == [status |-> "none", parts |-> <<>>, num_parts |-> 0, capacity |-> 0,
                    total_volume |-> 0, decomposition_quality |-> <<0, 1>>,
                    parts_null |-> FALSE, fault |-> FALSE,
                    frees |-> 0, writes_outside |-> 0]

\* ------------------------------------------------------------------ Init
InitCommon ==
    /\ pc = "idle"
    /\ oom \in 0..MaxAllocFailures
    /\ oom_budget = oom
    /\ max_triangles_per_leaf = 0
    /\ bvh = [status |-> "none", root |-> NULL, allocs |-> 0, frees |-> 0]
    /\ nodes = <<>>
    /\ triangle_indices = <<>>
    /\ tmp_frees = 0
    /\ stack = <<>>
    /\ ret = -1
    /\ partition = NoPartition
    /\ query = NoQuery
    /\ parts = <<>>
    /\ decomp = NoDecomposition
    /\ dstack = <<>>
    /\ dparams = NoParams

InitBvh ==
    /\ InitCommon
    /\ stl \in BvhMeshes

\* ------------------------------------------------------------- bvh_create
\* bvh_create up to its call of bvh_build_recursive (bvh.c 13-35).
bvh_create_enter(mtpl, hdr_ok, tmp_ok, on_build, on_null) ==
    IF stl.is_null \/ stl.num_triangles = 0 THEN
        /\ pc' = on_null
        /\ UNCHANGED <<oom, bvhVars>>
    ELSE IF ~hdr_ok THEN
        /\ pc' = on_null
        /\ oom' = oom - 1
        /\ UNCHANGED bvhVars
    ELSE IF ~tmp_ok THEN
        /\ pc' = on_null
        /\ oom' = oom - 1
        /\ bvh' = [status |-> "freed", root |-> NULL, allocs |-> 1, frees |-> 1]
        /\ UNCHANGED <<max_triangles_per_leaf, nodes, triangle_indices, tmp_frees, stack, ret>>
    ELSE
        /\ pc' = on_build
        /\ max_triangles_per_leaf' = mtpl
        /\ bvh' = [status |-> "live", root |-> NULL, allocs |-> 1, frees |-> 0]
        /\ triangle_indices' = [i \in 1..stl.num_triangles |-> i - 1]
        /\ stack' = <<Frame(0, stl.num_triangles, 0)>>
        /\ ret' = -1
        /\ UNCHANGED <<oom, nodes, tmp_frees>>

\* Leaf size 0 is outside the documented input range; it is explored without
\* injected allocation failures, which keeps its depth-20 chains small.
LeafSizes == IF oom = 0 THEN 0..MaxLeaf ELSE 1..MaxLeaf

BvhCreate ==
    /\ pc = "idle"
    /\ \E mtpl \in LeafSizes, hdr_ok \in AllocOutcomes, tmp_ok \in AllocOutcomes :
          bvh_create_enter(mtpl, hdr_ok, tmp_ok, "bvh_build", "bvh_null")
    /\ UNCHANGED <<stl, oom_budget, partVars, decompVars>>

Building == pc \in {"bvh_build", "part_bvh_build"}

LeafConditionDepthOnly(n, depth) == depth >= BVH_MAX_DEPTH

\* bvh.c 84: few triangles or the depth cap reached
LeafCondition(n, depth) == n <= max_triangles_per_leaf \/ depth >= BVH_MAX_DEPTH

\* bvh_build_recursive from entry to its first recursive call or its return
\* (bvh.c 75-114).
BuildNode ==
    /\ Building
    /\ stack # <<>>
    /\ Top.pc = "call"
    /\ \E node_ok \in AllocOutcomes, leaf_ok \in AllocOutcomes,
          sorted \in bvh_sort_triangles_by_axis(
                         Segment(triangle_indices, Top.off, Top.n), Top.depth % 3) :
        LET f == Top
            id == Len(nodes) + 1
        IN IF f.n = 0 THEN
               /\ stack' = Pop
               /\ ret' = NULL
               /\ UNCHANGED <<oom, nodes, triangle_indices>>
           ELSE IF ~node_ok THEN
               /\ stack' = Pop
               /\ ret' = NULL
               /\ oom' = oom - 1
               /\ UNCHANGED <<nodes, triangle_indices>>
           ELSE IF LeafCondition(f.n, f.depth) THEN
               IF ~leaf_ok THEN
                   /\ stack' = Pop
                   /\ ret' = NULL
                   /\ oom' = oom - 1
                   /\ nodes' = Append(nodes, [NewNode EXCEPT !.type = BVH_LEAF,
                                                 !.num_triangles = f.n, !.depth = f.depth,
                                                 !.frees = 1])
                   /\ UNCHANGED triangle_indices
               ELSE
                   LET idx == Segment(triangle_indices, f.off, f.n)
                   IN /\ stack' = Pop
                      /\ ret' = id
                      /\ nodes' = Append(nodes, [NewNode EXCEPT !.type = BVH_LEAF,
                                                    !.num_triangles = f.n, !.depth = f.depth,
                                                    !.has_indices = TRUE,
                                                    !.triangle_indices = idx,
                                                    !.bounds = LeafBounds(NewNode.bounds, idx)])
                      /\ UNCHANGED <<oom, triangle_indices>>
           ELSE
               /\ triangle_indices' = WriteSegment(triangle_indices, f.off, sorted)
               /\ nodes' = Append(nodes, [NewNode EXCEPT !.type = BVH_INTERNAL,
                                                         !.depth = f.depth])
               /\ stack' = Append(ReplaceTop([f EXCEPT !.pc = "left", !.node = id]),
                                  Frame(f.off, SplitMid(f.n), f.depth + 1))
               /\ ret' = -1
               /\ UNCHANGED oom
    /\ UNCHANGED <<stl, oom_budget, pc, max_triangles_per_leaf, bvh, tmp_frees, partVars, decompVars>>

\* the left child has returned: store it and call the right child (115-116)
BuildLeftDone ==
    /\ Building
    /\ stack # <<>>
    /\ Top.pc = "left"
    /\ ret # -1
    /\ LET f == Top
           mid == SplitMid(f.n)
       IN /\ nodes' = [nodes EXCEPT ![f.node].left = ret]
          /\ stack' = Append(ReplaceTop([f EXCEPT !.pc = "right", !.left = ret]),
                             Frame(f.off + mid, f.n - mid, f.depth + 1))
          /\ ret' = -1
    /\ UNCHANGED <<stl, oom_budget, pc, oom, max_triangles_per_leaf, bvh, triangle_indices, tmp_frees,
                   partVars, decompVars>>

\* the right child has returned: clean up or compute the box, return (118-129)
BuildRightDone ==
    /\ Building
    /\ stack # <<>>
    /\ Top.pc = "right"
    /\ ret # -1
    /\ LET f == Top
           withRight == [nodes EXCEPT ![f.node].right = ret]
       IN IF f.left = NULL \/ ret = NULL THEN
              /\ nodes' = [bvh_free_node(bvh_free_node(withRight, f.left), ret)
                              EXCEPT ![f.node].frees = @ + 1]
              /\ ret' = NULL
              /\ stack' = Pop
          ELSE
              /\ nodes' = [withRight EXCEPT ![f.node].bounds =
                              InternalBounds(withRight[f.left].bounds, withRight[ret].bounds)]
              /\ ret' = f.node
              /\ stack' = Pop
    /\ UNCHANGED <<stl, oom_budget, pc, oom, max_triangles_per_leaf, bvh, triangle_indices, tmp_frees,
                   partVars, decompVars>>

bvh_create_finish_unchecked(on_ok, on_null) ==
    /\ tmp_frees' = tmp_frees + 1
    /\ bvh' = [bvh EXCEPT !.root = ret]
    /\ pc' = on_ok
    /\ UNCHANGED <<max_triangles_per_leaf, nodes, triangle_indices, stack, ret>>

\* bvh_create after the recursion (bvh.c 35-44)
bvh_create_finish(on_ok, on_null) ==
    /\ tmp_frees' = tmp_frees + 1
    /\ IF ret = NULL THEN
           /\ bvh' = [bvh EXCEPT !.status = "freed", !.frees = @ + 1]
           /\ pc' = on_null
       ELSE
           /\ bvh' = [bvh EXCEPT !.root = ret]
           /\ pc' = on_ok
    /\ UNCHANGED <<max_triangles_per_leaf, nodes, triangle_indices, stack, ret>>

BvhCreateFinish ==
    /\ pc = "bvh_build"
    /\ stack = <<>>
    /\ ret # -1
    /\ bvh_create_finish("bvh_ok", "bvh_null")
    /\ UNCHANGED <<stl, oom_budget, oom, partVars, decompVars>>

NextBvh == BvhCreate \/ BuildNode \/ BuildLeftDone \/ BuildRightDone \/ BvhCreateFinish

SpecBvh == InitBvh /\ [][NextBvh]_vars

\* ------------------------------------------------ spatial_partition_create
PartXs == {0, 6, 12}
PartTriangles ==
    {t \in {<<<<x0, 0, 0>>, <<x1, 3, 0>>, <<x2, 0, 3>>>> : x0, x1, x2 \in PartXs} :
        t[1][1] <= t[2][1] /\ t[2][1] <= t[3][1]}
PartMeshes == {MeshOf(ts) : ts \in SeqsUpTo(PartTriangles, MaxPartTriangles)} \cup {NullMesh}

\* partition counts whose partition_width is an integer for the mesh at hand
PartitionCounts ==
    {n \in 0..MaxPartitions : n = 0 \/ (stl.bounds[4] - stl.bounds[1]) % n = 0}

\* the allocations of one action are numbered; F is the set of those that fail
AllocFailSets(k) == {F \in SUBSET (1..k) : Cardinality(F) <= oom}

InitPartition ==
    /\ InitCommon
    /\ stl \in PartMeshes

PartitionBoundsArrayFromOrigin(n) ==
    LET total_width == stl.bounds[4] - stl.bounds[1]
        partition_width == total_width \div n
    IN [q \in 1..(6 * n) |->
          LET i == (q - 1) \div 6
              k == (q - 1) % 6
          IN IF k = 0 THEN i * partition_width
             ELSE IF k = 3 THEN (i + 1) * partition_width
             ELSE stl.bounds[k + 1]]

\* bvh.c 251-262: the flat array of num_partitions boxes of 6 floats
PartitionBoundsArray(n) ==
    LET total_width == stl.bounds[4] - stl.bounds[1]
        partition_width == total_width \div n
    IN [q \in 1..(6 * n) |->
          LET i == (q - 1) \div 6
              k == (q - 1) % 6
          IN IF k = 0 THEN stl.bounds[1] + i * partition_width
             ELSE IF k = 3 THEN stl.bounds[1] + (i + 1) * partition_width
             ELSE stl.bounds[k + 1]]

\* bvh.c 267: centroid X of a triangle, in thirds
CenterX3(t) == t[1][1] + t[2][1] + t[3][1]

RECURSIVE ScanPartitionsUpperInclusive(_, _, _, _)
ScanPartitionsUpperInclusive(c3, pb, j, n) ==
    IF j >= n THEN 0
    ELSE IF c3 > 3 * pb[j * 6 + 1] /\ c3 <= 3 * pb[j * 6 + 4] THEN j
    ELSE ScanPartitionsUpperInclusive(c3, pb, j + 1, n)

RECURSIVE ScanPartitionsNoDefault(_, _, _, _)
ScanPartitionsNoDefault(c3, pb, j, n) ==
    IF j >= n THEN n
    ELSE IF c3 >= 3 * pb[j * 6 + 1] /\ c3 < 3 * pb[j * 6 + 4] THEN j
    ELSE ScanPartitionsNoDefault(c3, pb, j + 1, n)

\* bvh.c 270-277: partition_id starts at 0 and takes the first j whose range
\* [min_x, max_x) holds the centroid; the scan starts at j.
RECURSIVE ScanPartitions(_, _, _, _)
ScanPartitions(c3, pb, j, n) ==
    IF j >= n THEN 0
    ELSE IF c3 >= 3 * pb[j * 6 + 1] /\ c3 < 3 * pb[j * 6 + 4] THEN j
    ELSE ScanPartitions(c3, pb, j + 1, n)

\* spatial_partition_create up to its call of bvh_create (bvh.c 227-244) and
\* that call's entry.  Allocations: 1 the struct, 2 partition_ids,
\* 3 partition_bounds, 4 the tree header, 5 the tree's index array.
PartitionCreate ==
    /\ pc = "idle"
    /\ \E n \in PartitionCounts, sort_axis \in SortAxes, F \in AllocFailSets(5),
          garbage_is_null \in BOOLEAN :
        IF stl.is_null \/ n = 0 THEN
            /\ pc' = "part_null"
            /\ UNCHANGED <<oom, bvhVars, partVars>>
        ELSE IF 1 \in F THEN
            /\ pc' = "part_null"
            /\ oom' = oom - 1
            /\ UNCHANGED <<bvhVars, partVars>>
        ELSE IF 2 \in F \/ 3 \in F THEN
            \* spatial_partition_free tests partition->bvh, which nothing has
            \* assigned yet: the value read is whatever malloc left there
            /\ oom' = oom - Cardinality(F \cap {2, 3})
            /\ IF garbage_is_null
               THEN /\ pc' = "part_null"
                    /\ partition' = [NoPartition EXCEPT !.status = "freed",
                                        !.num_partitions = n, !.frees = 1,
                                        !.ids_frees = IF 2 \in F THEN 0 ELSE 1,
                                        !.bounds_frees = IF 3 \in F THEN 0 ELSE 1]
               ELSE /\ pc' = "part_fault"
                    /\ partition' = [NoPartition EXCEPT !.status = "live",
                                        !.num_partitions = n]
            /\ UNCHANGED <<bvhVars, query>>
        ELSE
            /\ partition' = [NoPartition EXCEPT !.status = "live", !.num_partitions = n]
            /\ UNCHANGED query
            /\ bvh_create_enter(PARTITION_LEAF_SIZE, 4 \notin F, 5 \notin F,
                                "part_bvh_build", "part_bvh_null")
    /\ UNCHANGED <<stl, oom_budget, decompVars>>

\* bvh_create returns to spatial_partition_create (bvh.c 35-44)
PartitionBvhFinish ==
    /\ pc = "part_bvh_build"
    /\ stack = <<>>
    /\ ret # -1
    /\ bvh_create_finish("part_bvh_ok", "part_bvh_null")
    /\ UNCHANGED <<stl, oom_budget, oom, partVars, decompVars>>

\* bvh_create returned NULL: release and fail (bvh.c 244-248, 284-297)
PartitionBvhNull ==
    /\ pc = "part_bvh_null"
    /\ partition' = [partition EXCEPT !.status = "freed", !.bvh_set = TRUE,
                        !.frees = @ + 1, !.ids_frees = @ + 1, !.bounds_frees = @ + 1]
    /\ pc' = "part_null"
    /\ UNCHANGED <<stl, oom_budget, oom, bvhVars, query, decompVars>>

\* the boxes and the assignment loop (bvh.c 250-281)
PartitionAssign ==
    /\ pc = "part_bvh_ok"
    /\ LET n == partition.num_partitions
           pb == PartitionBoundsArray(n)
       IN partition' = [partition EXCEPT !.bvh_set = TRUE,
                           !.partition_bounds = pb,
                           !.partition_ids =
                               [i \in 1..stl.num_triangles |->
                                   ScanPartitions(CenterX3(stl.triangles[i]), pb, 0, n)]]
    /\ pc' = "part_ok"
    /\ UNCHANGED <<stl, oom_budget, oom, bvhVars, query, decompVars>>

\* bvh_intersects_bounds (bvh.c 369-373)
bvh_intersects_bounds(b1, b2) ==
    /\ b1[1] <= b2[4] /\ b1[4] >= b2[1]
    /\ b1[2] <= b2[5] /\ b1[5] >= b2[2]
    /\ b1[3] <= b2[6] /\ b1[6] >= b2[3]

\* query boxes: one around every mesh, one in its lower corner, one outside
QueryBoxes == {<<-1, -1, -1, 13, 13, 13>>, <<-1, -1, -1, 1, 1, 1>>, <<20, 20, 20, 21, 21, 21>>}

\* spatial_partition_get_triangles_in_region on the returned partition index
\* (bvh.c 299-309): called with or without a box and a count pointer
RegionQuery ==
    /\ pc = "part_ok"
    /\ \E qb \in QueryBoxes, has_bounds \in BOOLEAN, has_count \in BOOLEAN :
          query' = IF ~has_bounds \/ ~has_count
                   THEN [NoQuery EXCEPT !.bounds = qb]
                   ELSE [called |-> TRUE, bounds |-> qb, result_null |-> TRUE,
                         result |-> <<>>, num_triangles |-> 0]
    /\ UNCHANGED <<stl, oom_budget, pc, oom, bvhVars, partition, decompVars>>

NextPartition ==
    \/ PartitionCreate
    \/ BuildNode
    \/ PartitionBvhFinish
    \/ PartitionBvhNull
    \/ PartitionAssign
    \/ RegionQuery

SpecPartition == InitPartition /\ [][NextPartition]_vars

\* ----------------------------------------- approximate_convex_decomposition
\* Volumes are kept in tenths (part->volume = num_triangles * 0.1f), the
\* tolerance in tenths too, a concavity or quality as <<numerator, denominator>>.
TriLow == <<<<0, 0, 0>>, <<0, 3, 0>>, <<0, 0, 3>>>>
TriHigh == <<<<12, 0, 0>>, <<12, 3, 0>>, <<12, 0, 3>>>>
\* n triangles: k at the low end of X followed by n-k at the high end
ClusterMesh(n, k) == [i \in 1..n |-> IF i <= k THEN TriLow ELSE TriHigh]
DecompSizes == {0, 1} \cup (MIN_SPLIT_TRIANGLES..MaxDecompTriangles)
DecompMeshes ==
    {MeshOf(ClusterMesh(n, k)) : n \in DecompSizes, k \in 0..MaxDecompTriangles} \cup {NullMesh}
Tolerances == {-1, 0}
\* what a read of the never-written part->hull.bounds[i] may return
GarbageValues == {0, 12}
HullGarbage == {hb \in [1..6 -> GarbageValues] : hb[2] = 0 /\ hb[3] = 0 /\ hb[6] = 0}

NoTrianglesOrOne(m) == m.is_null \/ m.num_triangles <= 1

\* `!stl || stl->num_triangles == 0`, the first test of every strategy
NoTriangles(m) == m.is_null \/ m.num_triangles = 0

InitDecomp ==
    /\ InitCommon
    /\ stl \in DecompMeshes

\* convex_part_create: the struct with an empty index array of that capacity;
\* hull.num_vertices is 0 and hull.bounds is left unwritten
NewPart(cap) ==
    [triangle_indices |-> <<>>, num_triangles |-> 0, capacity |-> cap, volume |-> 0,
     hull_num_vertices |-> 0, idx_null |-> FALSE, fault |-> FALSE,
     writes_outside |-> 0, frees |-> 0]

convex_part_add_triangle_if_room(p, t, realloc_ok) ==
    IF p.num_triangles >= p.capacity THEN p
    ELSE [p EXCEPT !.triangle_indices = Append(@, t), !.num_triangles = @ + 1]

\* convex_part_add_triangle; realloc_ok is the outcome of the realloc, if any
convex_part_add_triangle(p, t, realloc_ok) ==
    LET grow == p.num_triangles >= p.capacity
        cap == IF grow THEN 2 * p.capacity ELSE p.capacity
    IN IF grow /\ ~realloc_ok
       THEN [p EXCEPT !.capacity = cap, !.idx_null = TRUE]
       ELSE IF p.idx_null /\ ~grow
       THEN [p EXCEPT !.fault = TRUE]
       ELSE [p EXCEPT !.capacity = cap, !.idx_null = FALSE,
                      !.triangle_indices = Append(@, t),
                      !.num_triangles = @ + 1,
                      !.writes_outside = @ + (IF p.num_triangles >= cap THEN 1 ELSE 0)]

RECURSIVE AddAll(_, _)
AddAll(p, idx) ==
    IF idx = <<>> THEN p ELSE AddAll(convex_part_add_triangle(p, Head(idx), TRUE), Tail(idx))

\* convex_part_compute_properties: only the volume proxy matters here
convex_part_compute_properties(p) ==
    IF p.num_triangles = 0 THEN p ELSE [p EXCEPT !.volume = p.num_triangles]

\* convex_part_free; a block that the decomposition still points to may be
\* found unchanged or overwritten by the allocator afterwards
convex_part_free(ps, id, overwritten) ==
    [ps EXCEPT ![id] = IF overwritten
                       THEN [@ EXCEPT !.frees = @ + 1, !.triangle_indices = <<>>,
                                      !.num_triangles = 0, !.volume = 0]
                       ELSE [@ EXCEPT !.frees = @ + 1]]

Referenced(d, id) == \E i \in 1..Len(d.parts) : d.parts[i] = id
OverwriteChoices(d, id) == IF Referenced(d, id) THEN BOOLEAN ELSE {FALSE}

\* convex_decomposition_add_part of part id whose volume is vol
convex_decomposition_add_part(d, id, vol, realloc_ok) ==
    LET grow == d.num_parts >= d.capacity
        cap == IF grow THEN 2 * d.capacity ELSE d.capacity
    IN IF grow /\ ~realloc_ok
       THEN [d EXCEPT !.capacity = cap, !.parts_null = TRUE]
       ELSE IF d.parts_null /\ ~grow
       THEN [d EXCEPT !.fault = TRUE]
       ELSE [d EXCEPT !.capacity = cap, !.parts_null = FALSE,
                      !.parts = Append(@, id),
                      !.num_parts = @ + 1,
                      !.total_volume = @ + vol,
                      !.writes_outside = @ + (IF d.num_parts >= cap THEN 1 ELSE 0)]

\* compute_volume of the part's hull, in tenths
compute_volume(p, hb) ==
    IF p.hull_num_vertices < MIN_HULL_VERTICES THEN 0
    ELSE 10 * (hb[4] - hb[1]) * (hb[5] - hb[2]) * (hb[6] - hb[3])

compute_part_concavity(p, hb) ==
    IF p.num_triangles = 0 THEN <<0, 1>>
    ELSE LET hull_volume == compute_volume(p, hb)
             actual_volume == p.volume
         IN IF hull_volume <= 0 THEN <<0, 1>>
            ELSE IF hull_volume - actual_volume < 0 THEN <<0, 1>>
            ELSE IF hull_volume - actual_volume > hull_volume THEN <<1, 1>>
            ELSE <<hull_volume - actual_volume, hull_volume>>

\* concavity <= concavity_tolerance, the tolerance in tenths
WithinTolerance(c, tol) == 10 * c[1] <= tol * c[2]

\* convex_decomposition.c 656-660: longest axis and twice the split value
SplitAxis(hb) ==
    LET dx == hb[4] - hb[1]
        dy == hb[5] - hb[2]
        dz == hb[6] - hb[3]
    IN IF dy > dx /\ dy > dz THEN 1 ELSE IF dz > dx /\ dz > dy THEN 2 ELSE 0

SplitValue2(hb) == hb[SplitAxis(hb) + 1] + hb[SplitAxis(hb) + 4]

Center3(t, axis) == t[1][axis + 1] + t[2][axis + 1] + t[3][axis + 1]

\* center < split_value
GoesLeft(t, hb) == 2 * Center3(t, SplitAxis(hb)) < 3 * SplitValue2(hb)

\* convex_decomposition.c 674-688: the k-th realloc of the loop is
\* allocation 4+k of the action and fails when F holds that number
RECURSIVE Distribute(_, _, _, _, _, _)
Distribute(idx, hb, L, R, k, F) ==
    IF idx = <<>> THEN [left |-> L, right |-> R, reallocs |-> k]
    ELSE LET t == Head(idx)
             toLeft == GoesLeft(stl.triangles[t + 1], hb)
             target == IF toLeft THEN L ELSE R
             grows == target.num_triangles >= target.capacity
             added == convex_part_add_triangle(target, t, (5 + k) \notin F)
         IN Distribute(Tail(idx), hb,
                       IF toLeft THEN added ELSE L,
                       IF toLeft THEN R ELSE added,
                       IF grows THEN k + 1 ELSE k, F)

DFrame(id) == [pc |-> "call", part |-> id, left |-> NULL, right |-> NULL]
DTop == dstack[Len(dstack)]
DPop == SubSeq(dstack, 1, Len(dstack) - 1)

\* approximate_convex_decomposition up to its call of
\* approximate_decompose_part (278-303).  Allocations: 1 the decomposition,
\* 2 its parts array, 3 the first part, 4 that part's index array.  A parts
\* array of max_parts = 0 entries is malloc(0), which may return NULL.
ApproxCreate ==
    /\ pc = "idle"
    /\ \E max_parts \in 0..MaxParts, tol \in Tolerances, F \in AllocFailSets(4),
          zero_is_null \in BOOLEAN :
        LET n == stl.num_triangles
            d0 == [NoDecomposition EXCEPT !.status = "live", !.capacity = max_parts]
            root == convex_part_compute_properties(
                        AddAll(NewPart(n), [i \in 1..n |-> i - 1]))
        IN /\ dparams' = [NoParams EXCEPT !.max_parts = max_parts,
                                           !.concavity_tolerance = tol]
           /\ IF NoTriangles(stl) THEN
                  /\ pc' = "decomp_null"
                  /\ UNCHANGED <<oom, parts, decomp, dstack>>
              ELSE IF 1 \in F THEN
                  /\ pc' = "decomp_null"
                  /\ oom' = oom - 1
                  /\ UNCHANGED <<parts, decomp, dstack>>
              ELSE IF 2 \in F \/ (max_parts = 0 /\ zero_is_null) THEN
                  /\ pc' = "decomp_null"
                  /\ oom' = oom - (IF 2 \in F THEN 1 ELSE 0)
                  /\ UNCHANGED <<parts, decomp, dstack>>
              ELSE IF 3 \in F \/ 4 \in F THEN
                  /\ pc' = "decomp_null"
                  /\ oom' = oom - 1
                  /\ decomp' = [d0 EXCEPT !.status = "freed", !.frees = 1]
                  /\ UNCHANGED <<parts, dstack>>
              ELSE
                  /\ pc' = "approx_run"
                  /\ decomp' = d0
                  /\ parts' = <<root>>
                  /\ dstack' = <<DFrame(1)>>
                  /\ UNCHANGED oom
    /\ UNCHANGED <<stl, oom_budget, bvhVars, partVars>>

\* approximate_decompose_part from entry to its first recursive call or its
\* return (631-693).  Allocations: 1 left part, 2 its array, 3 right part,
\* 4 its array, 5.. the reallocs of the distribution loop; the realloc of an
\* accepting convex_decomposition_add_part is allocation 1.
DecomposePart ==
    /\ pc = "approx_run"
    /\ dstack # <<>>
    /\ DTop.pc = "call"
    /\ Len(dstack) <= MaxDecompDepth
    /\ \E hb \in HullGarbage, F \in AllocFailSets(6) :
        LET f == DTop
            id == f.part
            part == parts[id]
            grows == decomp.num_parts >= decomp.capacity
            accepted == convex_decomposition_add_part(decomp, id, part.volume, 1 \notin F)
            left_ok == 1 \notin F /\ 2 \notin F
            right_ok == 3 \notin F /\ 4 \notin F
            half == part.num_triangles \div 2
            dist == Distribute(part.triangle_indices, hb, NewPart(half), NewPart(half), 0, F)
            L == convex_part_compute_properties(dist.left)
            R == convex_part_compute_properties(dist.right)
            lid == Len(parts) + 1
            rid == Len(parts) + 2
        IN IF part.num_triangles = 0 THEN
               /\ dstack' = DPop
               /\ UNCHANGED <<pc, oom, parts, decomp>>
           ELSE IF \/ decomp.num_parts >= dparams.max_parts
                   \/ WithinTolerance(compute_part_concavity(part, hb),
                                      dparams.concavity_tolerance)
                   \/ part.num_triangles < MIN_SPLIT_TRIANGLES THEN
               /\ decomp' = accepted
               /\ oom' = oom - (IF grows /\ 1 \in F THEN 1 ELSE 0)
               /\ dstack' = DPop
               /\ pc' = IF accepted.fault THEN "decomp_fault" ELSE pc
               /\ UNCHANGED parts
           ELSE IF ~left_ok \/ ~right_ok THEN
               LET kept == convex_decomposition_add_part(decomp, id, part.volume, TRUE)
               IN /\ decomp' = kept
                  /\ oom' = oom - Cardinality({F \cap {1, 2}, F \cap {3, 4}} \ {{}})
                  /\ dstack' = DPop
                  /\ pc' = IF kept.fault THEN "decomp_fault" ELSE pc
                  /\ UNCHANGED parts
           ELSE IF part.idx_null \/ L.fault \/ R.fault THEN
               /\ pc' = "decomp_fault"
               /\ oom' = oom - Cardinality(F \cap (5..(4 + dist.reallocs)))
               /\ UNCHANGED <<parts, decomp, dstack>>
           ELSE
               /\ parts' = parts \o <<L, R>>
               /\ oom' = oom - Cardinality(F \cap (5..(4 + dist.reallocs)))
               /\ dstack' =
                    IF L.num_triangles > 0
                    THEN Append([dstack EXCEPT ![Len(dstack)] =
                                    [f EXCEPT !.pc = "left", !.left = lid, !.right = rid]],
                                DFrame(lid))
                    ELSE IF R.num_triangles > 0
                    THEN Append([dstack EXCEPT ![Len(dstack)] =
                                    [f EXCEPT !.pc = "right", !.left = lid, !.right = rid]],
                                DFrame(rid))
                    ELSE [dstack EXCEPT ![Len(dstack)] =
                                    [f EXCEPT !.pc = "free", !.left = lid, !.right = rid]]
               /\ UNCHANGED <<pc, decomp>>
    /\ UNCHANGED <<stl, oom_budget, bvhVars, partVars, dparams>>

\* the left half has been decomposed: decompose the right half if it is not
\* empty (695-698)
DecomposeLeftDone ==
    /\ pc = "approx_run"
    /\ dstack # <<>>
    /\ DTop.pc = "left"
    /\ dstack' = IF parts[DTop.right].num_triangles > 0
                 THEN Append([dstack EXCEPT ![Len(dstack)].pc = "right"], DFrame(DTop.right))
                 ELSE [dstack EXCEPT ![Len(dstack)].pc = "free"]
    /\ UNCHANGED <<stl, oom_budget, pc, oom, bvhVars, partVars, parts, decomp, dparams>>

\* both halves are done: release them and return (700-701)
DecomposeRelease ==
    /\ pc = "approx_run"
    /\ dstack # <<>>
    /\ DTop.pc \in {"right", "free"}
    /\ \E lo \in OverwriteChoices(decomp, DTop.left),
          ro \in OverwriteChoices(decomp, DTop.right) :
          parts' = convex_part_free(convex_part_free(parts, DTop.left, lo), DTop.right, ro)
    /\ dstack' = DPop
    /\ UNCHANGED <<stl, oom_budget, pc, oom, bvhVars, partVars, decomp, dparams>>

\* compute_decomposition_quality: 1 / (1 + population variance of the volumes)
RECURSIVE SumSquares(_, _, _, _)
SumSquares(ps, ids, n, total) ==
    IF ids = <<>> THEN 0
    ELSE (n * ps[Head(ids)].volume - total) * (n * ps[Head(ids)].volume - total)
         + SumSquares(ps, Tail(ids), n, total)

compute_decomposition_quality(d, ps) ==
    IF d.num_parts = 0 THEN <<0, 1>>
    ELSE LET n == d.num_parts
             scale == 100 * n * n * n
         IN <<scale, scale + SumSquares(ps, d.parts, n, d.total_volume)>>

\* approximate_convex_decomposition after the recursion (303-307); the
\* quality loop reads through decomp->parts, which a failed realloc left NULL
ApproxFinish ==
    /\ pc = "approx_run"
    /\ dstack = <<>>
    /\ \E o \in OverwriteChoices(decomp, 1) :
          LET freed == convex_part_free(parts, 1, o)
          IN /\ parts' = freed
             /\ decomp' = IF decomp.parts_null /\ decomp.num_parts > 0
                          THEN [decomp EXCEPT !.fault = TRUE]
                          ELSE [decomp EXCEPT !.decomposition_quality =
                                   compute_decomposition_quality(decomp, freed)]
    /\ pc' = IF decomp.parts_null /\ decomp.num_parts > 0 THEN "decomp_fault" ELSE "decomp_ok"
    /\ UNCHANGED <<stl, oom_budget, oom, bvhVars, partVars, dstack, dparams>>

RECURSIVE FreeAll(_, _)
FreeAll(ps, ids) ==
    IF ids = <<>> THEN ps ELSE FreeAll(convex_part_free(ps, Head(ids), FALSE), Tail(ids))

\* the caller is done with the result: convex_decomposition_free (216-229)
DecompositionFree ==
    /\ pc = "decomp_ok"
    /\ parts' = FreeAll(parts, decomp.parts)
    /\ decomp' = [decomp EXCEPT !.status = "freed", !.frees = @ + 1]
    /\ pc' = "decomp_freed"
    /\ UNCHANGED <<stl, oom_budget, oom, bvhVars, partVars, dstack, dparams>>

NextDecomp ==
    \/ ApproxCreate
    \/ DecomposePart
    \/ DecomposeLeftDone
    \/ DecomposeRelease
    \/ ApproxFinish
    \/ DecompositionFree

SpecDecomp == InitDecomp /\ [][NextDecomp]_vars

\* ------------------------------------------------ voxel_based_decomposition
VoxelMeshes ==
    {MeshOf(ClusterMesh(n, k)) : n \in 0..MaxVoxelTriangles, k \in 0..MaxVoxelTriangles}
        \cup {NullMesh}
VoxelSizes == {0, 6, 20}

InitVoxel ==
    /\ InitCommon
    /\ stl \in VoxelMeshes

\* (int)((max - min) / voxel_size) + 1
NumVoxels(axis, size) == (stl.bounds[axis + 4] - stl.bounds[axis + 1]) \div size + 1

\* (int)((center - min) / voxel_size), the centre in thirds
VoxelIndex(t, axis, size) == (Center3(t, axis) - 3 * stl.bounds[axis + 1]) \div (3 * size)

VoxelOf(t, size) == <<VoxelIndex(t, 0, size), VoxelIndex(t, 1, size), VoxelIndex(t, 2, size)>>

NumCells(size) == NumVoxels(0, size) * NumVoxels(1, size) * NumVoxels(2, size)

\* the k-th cell visited by the loops over x, y, z (k from 0)
CellAt(k, size) ==
    <<k \div (NumVoxels(1, size) * NumVoxels(2, size)),
      (k \div NumVoxels(2, size)) % NumVoxels(1, size),
      k % NumVoxels(2, size)>>

InGrid(c, size) ==
    \A a \in 1..3 : c[a] >= 0 /\ c[a] < NumVoxels(a - 1, size)

\* triangle indices (0-based, ascending) whose centre lies in the cell
RECURSIVE TrianglesInCell(_, _, _)
TrianglesInCell(i, c, size) ==
    IF i >= stl.num_triangles THEN <<>>
    ELSE (IF VoxelOf(stl.triangles[i + 1], size) = c THEN <<i>> ELSE <<>>)
         \o TrianglesInCell(i + 1, c, size)

\* voxel_grid[x][y][z] after the counting loop (468-486)
VoxelCount(c, size) ==
    IF InGrid(c, size) THEN Len(TrianglesInCell(0, c, size)) ELSE 0

\* allocations of the grid: the x array, one row per x, one column per (x, y)
GridAllocs(size) == 1 + NumVoxels(0, size) + NumVoxels(0, size) * NumVoxels(1, size)

\* numbered allocations of one call: 1 the decomposition, 2 its parts array,
\* then the grid, then two per cell (part and index array) and one for a
\* growing parts array
VoxelAllocSlots(size) == 2 + GridAllocs(size) + 3 * NumCells(size)

\* the loop that creates the parts (489-523), from cell k on; st carries the
\* heap of parts, the decomposition, the next allocation number and the
\* number of failed allocations
RECURSIVE VoxelBuildParts(_, _, _, _, _, _)
VoxelBuildParts(k, st, size, mtv, F, zero_is_null) ==
    IF k >= NumCells(size) THEN st
    ELSE LET c == CellAt(k, size)
             cnt == VoxelCount(c, size)
             struct_ok == st.next \notin F
             array_ok == (st.next + 1) \notin F
             array_null == ~array_ok \/ (cnt = 0 /\ zero_is_null)
             part == convex_part_compute_properties(
                         AddAll(NewPart(cnt), TrianglesInCell(0, c, size)))
             id == Len(st.parts) + 1
             grows == st.decomp.num_parts >= st.decomp.capacity
             added == convex_decomposition_add_part(st.decomp, id, part.volume,
                                                    (st.next + 2) \notin F)
         IN IF cnt < mtv THEN VoxelBuildParts(k + 1, st, size, mtv, F, zero_is_null)
            ELSE IF ~struct_ok
            THEN VoxelBuildParts(k + 1, [st EXCEPT !.next = @ + 1, !.failed = @ + 1],
                                 size, mtv, F, zero_is_null)
            ELSE IF array_null
            THEN VoxelBuildParts(k + 1, [st EXCEPT !.next = @ + 2,
                                            !.failed = @ + (IF array_ok THEN 0 ELSE 1)],
                                 size, mtv, F, zero_is_null)
            ELSE IF part.num_triangles > 0
            THEN VoxelBuildParts(k + 1,
                     [parts |-> Append(st.parts, part), decomp |-> added,
                      next |-> st.next + (IF grows THEN 3 ELSE 2),
                      failed |-> st.failed + (IF grows /\ (st.next + 2) \in F THEN 1 ELSE 0)],
                     size, mtv, F, zero_is_null)
            ELSE VoxelBuildParts(k + 1,
                     [st EXCEPT !.parts = Append(@, [part EXCEPT !.frees = 1]),
                                !.next = @ + 2],
                     size, mtv, F, zero_is_null)

\* voxel_based_decomposition (408-536)
VoxelDecompose ==
    /\ pc = "idle"
    /\ \E size \in VoxelSizes, mtv \in 0..MaxVoxelTriangles, zero_is_null \in BOOLEAN :
        /\ dparams' = [NoParams EXCEPT !.voxel_size = size,
                                       !.min_triangles_per_voxel = mtv]
        /\ IF NoTriangles(stl) \/ size <= 0 THEN
               /\ pc' = "voxel_null"
               /\ UNCHANGED <<oom, parts, decomp, dstack>>
           ELSE \E F \in AllocFailSets(VoxelAllocSlots(size)) :
               LET d0 == [NoDecomposition EXCEPT !.status = "live",
                                                 !.capacity = VOXEL_INITIAL_PARTS]
                   grid == 3..(2 + GridAllocs(size))
                   built == VoxelBuildParts(0, [parts |-> <<>>, decomp |-> d0,
                                                next |-> 3 + GridAllocs(size), failed |-> 0],
                                            size, mtv, F, zero_is_null)
                   faulted == built.decomp.fault
                              \/ (built.decomp.parts_null /\ built.decomp.num_parts > 0)
               IN IF 1 \in F \/ 2 \in F THEN
                      /\ pc' = "voxel_null"
                      /\ oom' = oom - 1
                      /\ UNCHANGED <<parts, decomp, dstack>>
                  ELSE IF F \cap grid # {} THEN
                      /\ pc' = "voxel_null"
                      /\ oom' = oom - 1
                      /\ decomp' = [d0 EXCEPT !.status = "freed", !.frees = 1]
                      /\ UNCHANGED <<parts, dstack>>
                  ELSE
                      /\ pc' = IF faulted THEN "decomp_fault" ELSE "voxel_ok"
                      /\ oom' = oom - built.failed
                      /\ parts' = built.parts
                      /\ decomp' = IF faulted THEN built.decomp
                                   ELSE [built.decomp EXCEPT !.decomposition_quality =
                                            compute_decomposition_quality(built.decomp, built.parts)]
                      /\ UNCHANGED dstack
    /\ UNCHANGED <<stl, oom_budget, bvhVars, partVars>>

\* the caller releases the result: convex_decomposition_free (216-229)
VoxelResultFree ==
    /\ pc = "voxel_ok"
    /\ parts' = FreeAll(parts, decomp.parts)
    /\ decomp' = [decomp EXCEPT !.status = "freed", !.frees = @ + 1]
    /\ pc' = "voxel_freed"
    /\ UNCHANGED <<stl, oom_budget, oom, bvhVars, partVars, dstack, dparams>>

NextVoxel == VoxelDecompose \/ VoxelResultFree

SpecVoxel == InitVoxel /\ [][NextVoxel]_vars

\* ----------------------------------------------- hierarchical_decomposition
HFrame(id, depth) == [pc |-> "call", part |-> id, left |-> NULL, right |-> NULL,
                      depth |-> depth]

\* hierarchical_decomposition up to its call of hierarchical_split_part
\* (310-331).  Allocations: 1 the decomposition, 2 its parts array of
\* 1 << max_depth entries, 3 the root part, 4 its index array.
HierCreate ==
    /\ pc = "idle"
    /\ \E max_depth \in 0..MaxHierDepth, F \in AllocFailSets(4) :
        LET n == stl.num_triangles
            d0 == [NoDecomposition EXCEPT !.status = "live", !.capacity = 2 ^ max_depth]
            root == convex_part_compute_properties(
                        AddAll(NewPart(n), [i \in 1..n |-> i - 1]))
        IN /\ dparams' = [NoParams EXCEPT !.max_depth = max_depth]
           /\ IF NoTriangles(stl) THEN
                  /\ pc' = "hier_null"
                  /\ UNCHANGED <<oom, parts, decomp, dstack>>
              ELSE IF 1 \in F \/ 2 \in F THEN
                  /\ pc' = "hier_null"
                  /\ oom' = oom - 1
                  /\ UNCHANGED <<parts, decomp, dstack>>
              ELSE IF 3 \in F \/ 4 \in F THEN
                  /\ pc' = "hier_null"
                  /\ oom' = oom - 1
                  /\ decomp' = [d0 EXCEPT !.status = "freed", !.frees = 1]
                  /\ UNCHANGED <<parts, dstack>>
              ELSE
                  /\ pc' = "hier_run"
                  /\ decomp' = d0
                  /\ parts' = <<root>>
                  /\ dstack' = <<HFrame(1, 0)>>
                  /\ UNCHANGED oom
    /\ UNCHANGED <<stl, oom_budget, bvhVars, partVars>>

\* hierarchical_split_part from entry to its first recursive call or its
\* return (340-394).  Allocations of the emitting branch: 1 the copy, 2 its
\* index array, 3 a growing parts array; of the splitting branch: 1 left part,
\* 2 its array, 3 right part, 4 its array, 5.. the reallocs of the
\* distribution loop.
HierSplitPart ==
    /\ pc = "hier_run"
    /\ dstack # <<>>
    /\ DTop.pc = "call"
    /\ \E hb \in HullGarbage, F \in AllocFailSets(6) :
        LET f == DTop
            part == parts[f.part]
            copy == convex_part_compute_properties(
                        AddAll(NewPart(part.num_triangles), part.triangle_indices))
            grows == decomp.num_parts >= decomp.capacity
            added == convex_decomposition_add_part(decomp, Len(parts) + 1, copy.volume,
                                                   3 \notin F)
            left_ok == 1 \notin F /\ 2 \notin F
            right_ok == 3 \notin F /\ 4 \notin F
            half == part.num_triangles \div 2
            dist == Distribute(part.triangle_indices, hb, NewPart(half), NewPart(half), 0, F)
            L == convex_part_compute_properties(dist.left)
            R == convex_part_compute_properties(dist.right)
            lid == Len(parts) + 1
            rid == Len(parts) + 2
        IN IF f.depth >= dparams.max_depth \/ part.num_triangles < MIN_SPLIT_TRIANGLES THEN
               IF 1 \in F \/ 2 \in F THEN
                   /\ oom' = oom - 1
                   /\ dstack' = DPop
                   /\ UNCHANGED <<pc, parts, decomp>>
               ELSE IF part.idx_null /\ part.num_triangles > 0 THEN
                   /\ pc' = "decomp_fault"
                   /\ UNCHANGED <<oom, parts, decomp, dstack>>
               ELSE
                   /\ parts' = Append(parts, copy)
                   /\ decomp' = added
                   /\ oom' = oom - (IF grows /\ 3 \in F THEN 1 ELSE 0)
                   /\ dstack' = DPop
                   /\ pc' = IF added.fault THEN "decomp_fault" ELSE pc
           ELSE IF ~left_ok \/ ~right_ok THEN
               /\ oom' = oom - Cardinality({F \cap {1, 2}, F \cap {3, 4}} \ {{}})
               /\ dstack' = DPop
               /\ UNCHANGED <<pc, parts, decomp>>
           ELSE IF part.idx_null \/ L.fault \/ R.fault THEN
               /\ pc' = "decomp_fault"
               /\ oom' = oom - Cardinality(F \cap (5..(4 + dist.reallocs)))
               /\ UNCHANGED <<parts, decomp, dstack>>
           ELSE
               /\ parts' = parts \o <<L, R>>
               /\ oom' = oom - Cardinality(F \cap (5..(4 + dist.reallocs)))
               /\ dstack' =
                    IF L.num_triangles > 0
                    THEN Append([dstack EXCEPT ![Len(dstack)] =
                                    [f EXCEPT !.pc = "left", !.left = lid, !.right = rid]],
                                HFrame(lid, f.depth + 1))
                    ELSE IF R.num_triangles > 0
                    THEN Append([dstack EXCEPT ![Len(dstack)] =
                                    [f EXCEPT !.pc = "right", !.left = lid, !.right = rid]],
                                HFrame(rid, f.depth + 1))
                    ELSE [dstack EXCEPT ![Len(dstack)] =
                                    [f EXCEPT !.pc = "free", !.left = lid, !.right = rid]]
               /\ UNCHANGED <<pc, decomp>>
    /\ UNCHANGED <<stl, oom_budget, bvhVars, partVars, dparams>>

\* the left half has been split: split the right half if it is not empty
\* (395-402)
HierLeftDone ==
    /\ pc = "hier_run"
    /\ dstack # <<>>
    /\ DTop.pc = "left"
    /\ dstack' = IF parts[DTop.right].num_triangles > 0
                 THEN Append([dstack EXCEPT ![Len(dstack)].pc = "right"],
                             HFrame(DTop.right, DTop.depth + 1))
                 ELSE [dstack EXCEPT ![Len(dstack)].pc = "free"]
    /\ UNCHANGED <<stl, oom_budget, pc, oom, bvhVars, partVars, parts, decomp, dparams>>

\* both halves are done: release them and return (404-405)
HierRelease ==
    /\ pc = "hier_run"
    /\ dstack # <<>>
    /\ DTop.pc \in {"right", "free"}
    /\ \E lo \in OverwriteChoices(decomp, DTop.left),
          ro \in OverwriteChoices(decomp, DTop.right) :
          parts' = convex_part_free(convex_part_free(parts, DTop.left, lo), DTop.right, ro)
    /\ dstack' = DPop
    /\ UNCHANGED <<stl, oom_budget, pc, oom, bvhVars, partVars, decomp, dparams>>

\* hierarchical_decomposition after the recursion (332-337)
HierFinish ==
    /\ pc = "hier_run"
    /\ dstack = <<>>
    /\ \E o \in OverwriteChoices(decomp, 1) :
          LET freed == convex_part_free(parts, 1, o)
          IN /\ parts' = freed
             /\ decomp' = IF decomp.parts_null /\ decomp.num_parts > 0
                          THEN [decomp EXCEPT !.fault = TRUE]
                          ELSE [decomp EXCEPT !.decomposition_quality =
                                   compute_decomposition_quality(decomp, freed)]
    /\ pc' = IF decomp.parts_null /\ decomp.num_parts > 0 THEN "decomp_fault" ELSE "hier_ok"
    /\ UNCHANGED <<stl, oom_budget, oom, bvhVars, partVars, dstack, dparams>>

\* the caller releases the result: convex_decomposition_free (216-229)
HierResultFree ==
    /\ pc = "hier_ok"
    /\ parts' = FreeAll(parts, decomp.parts)
    /\ decomp' = [decomp EXCEPT !.status = "freed", !.frees = @ + 1]
    /\ pc' = "hier_freed"
    /\ UNCHANGED <<stl, oom_budget, oom, bvhVars, partVars, dstack, dparams>>

NextHier ==
    \/ HierCreate
    \/ HierSplitPart
    \/ HierLeftDone
    \/ HierRelease
    \/ HierFinish
    \/ HierResultFree

SpecHier == InitDecomp /\ [][NextHier]_vars

\* ------------------------------------------------------- any strategy
InitStrategies ==
    /\ InitCommon
    /\ stl \in DecompMeshes \cup VoxelMeshes

NextStrategies ==
    \/ NextDecomp
    \/ NextVoxel
    \/ NextHier

SpecStrategies == InitStrategies /\ [][NextStrategies]_vars

\* ----------------------------------------------------- properties: the BVT
RECURSIVE LeafIndices(_)
LeafIndices(id) ==
    IF id = NULL THEN <<>>
    ELSE IF nodes[id].type = BVH_INTERNAL
    THEN LeafIndices(nodes[id].left) \o LeafIndices(nodes[id].right)
    ELSE nodes[id].triangle_indices

RECURSIVE TreeNodes(_)
TreeNodes(id) ==
    IF id = NULL THEN {}
    ELSE IF nodes[id].type = BVH_INTERNAL
    THEN {id} \cup TreeNodes(nodes[id].left) \cup TreeNodes(nodes[id].right)
    ELSE {id}

Occurrences(seq, x) == Cardinality({i \in 1..Len(seq) : seq[i] = x})
MinOf(S) == CHOOSE x \in S : \A y \in S : x <= y
MaxOf(S) == CHOOSE x \in S : \A y \in S : x >= y
VertexCoords(idx, k) ==
    {stl.triangles[idx[i] + 1][j][k] : i \in 1..Len(idx), j \in 1..3}

\* C1: after a successful bvh_create every triangle index 0..num_triangles-1
\* occurs exactly once among the leaves of the tree (no duplicate, no omission).
C1_LeafCoverage ==
    pc = "bvh_ok" =>
        LET all == LeafIndices(bvh.root)
        IN /\ Len(all) = stl.num_triangles
           /\ \A t \in 0..(stl.num_triangles - 1) : Occurrences(all, t) = 1

C1_Witness ==
    /\ pc = "bvh_ok"
    /\ stl.num_triangles >= 3
    /\ nodes[bvh.root].type = BVH_INTERNAL
    /\ Cardinality({id \in TreeNodes(bvh.root) : nodes[id].type = BVH_LEAF}) >= 2

\* C10: in a built tree an internal node's box is the per-axis union of its
\* children's boxes and a leaf's box is the per-axis min and max over the
\* vertices of the triangles the leaf holds.
C10_BoundsInvariant ==
    pc = "bvh_ok" =>
        \A id \in TreeNodes(bvh.root) :
            LET n == nodes[id]
            IN IF n.type = BVH_INTERNAL
               THEN \A k \in 1..3 :
                       /\ n.bounds[k] = MinOf({nodes[n.left].bounds[k], nodes[n.right].bounds[k]})
                       /\ n.bounds[k + 3] =
                              MaxOf({nodes[n.left].bounds[k + 3], nodes[n.right].bounds[k + 3]})
               ELSE \A k \in 1..3 :
                       /\ n.bounds[k] = MinOf(VertexCoords(n.triangle_indices, k))
                       /\ n.bounds[k + 3] = MaxOf(VertexCoords(n.triangle_indices, k))

C10_Witness ==
    /\ pc = "bvh_ok"
    /\ nodes[bvh.root].type = BVH_INTERNAL
    /\ nodes[bvh.root].bounds # nodes[nodes[bvh.root].left].bounds
    /\ nodes[bvh.root].bounds # nodes[nodes[bvh.root].right].bounds

\* ------------------------------------------- properties: the partition index
PartLo(i) == partition.partition_bounds[i * 6 + 1]
PartHi(i) == partition.partition_bounds[i * 6 + 4]
TriangleIds == 1..stl.num_triangles
AssignedId(i) == partition.partition_ids[i]
InRange(i, j) ==
    /\ CenterX3(stl.triangles[i]) >= 3 * PartLo(j)
    /\ CenterX3(stl.triangles[i]) < 3 * PartHi(j)

\* C6: after a successful spatial_partition_create with N >= 1 partitions
\* every triangle has one assigned partition id and it lies in [0, N).
C6_IdsInRange ==
    pc = "part_ok" =>
        /\ partition.num_partitions >= 1
        /\ DOMAIN partition.partition_ids = TriangleIds
        /\ \A i \in TriangleIds : AssignedId(i) \in 0..(partition.num_partitions - 1)

C6_Witness ==
    /\ pc = "part_ok"
    /\ partition.num_partitions >= 2
    /\ \E i, j \in TriangleIds : AssignedId(i) # AssignedId(j)
    /\ \E i \in TriangleIds : \A j \in 0..(partition.num_partitions - 1) : ~InRange(i, j)

PositiveWidth == stl.bounds[4] > stl.bounds[1]

\* C7 (as claimed, on a mesh of positive X extent): the X range of the
\* partition assigned to a triangle contains the triangle's centroid X, and
\* no lower partition's range does.
C7_AssignedRangeContainsCentroid ==
    (pc = "part_ok" /\ PositiveWidth) =>
        \A i \in TriangleIds :
            /\ InRange(i, AssignedId(i))
            /\ \A j \in 0..(AssignedId(i) - 1) : ~InRange(i, j)

\* C8 (as claimed, on a mesh of positive X extent): a centroid X exactly on
\* the boundary between partition i and partition i+1 is assigned to the
\* lower partition i.
C8_BoundaryGoesLower ==
    (pc = "part_ok" /\ PositiveWidth) =>
        \A t \in TriangleIds : \A i \in 0..(partition.num_partitions - 2) :
            CenterX3(stl.triangles[t]) = 3 * PartHi(i) => AssignedId(t) = i

\* C8 (amended): a centroid X exactly on the boundary between partition i and
\* partition i+1 is assigned to the upper partition i+1, whenever that
\* partition's X range is not empty.
C8_BoundaryGoesUpper ==
    pc = "part_ok" =>
        \A t \in TriangleIds : \A i \in 0..(partition.num_partitions - 2) :
            (/\ CenterX3(stl.triangles[t]) = 3 * PartHi(i)
             /\ PartLo(i + 1) < PartHi(i + 1))
                => AssignedId(t) = i + 1

C8_Witness ==
    /\ pc = "part_ok"
    /\ partition.num_partitions >= 3
    /\ \E t \in TriangleIds :
          /\ CenterX3(stl.triangles[t]) = 3 * PartHi(1)
          /\ PartLo(2) < PartHi(2)
          /\ AssignedId(t) = 2

\* C9 (as claimed, on a mesh of positive X extent): the upper X bound is
\* inclusive for the last partition: a centroid X equal to the mesh's max X
\* is assigned to partition N-1, and with 2 partitions a centroid X at the
\* middle of the X extent is assigned to partition 1.
C9_LastPartitionInclusive ==
    (pc = "part_ok" /\ PositiveWidth) =>
        \A t \in TriangleIds :
            /\ CenterX3(stl.triangles[t]) = 3 * stl.bounds[4]
                   => AssignedId(t) = partition.num_partitions - 1
            /\ (/\ partition.num_partitions = 2
                /\ 2 * CenterX3(stl.triangles[t]) = 3 * (stl.bounds[1] + stl.bounds[4]))
                   => AssignedId(t) = 1

\* ------------------------------------------- properties: the decomposition
Returned == pc = "decomp_ok"
PartOf(i) == parts[decomp.parts[i]]
PartSlots == 1..Len(decomp.parts)

\* C2: every part that a returned decomposition points to is live (never
\* released by the builder), and after convex_decomposition_free each of
\* them has been released exactly once; stated for max_parts >= 1.
C2_PartsLiveAndReleasedOnce ==
    dparams.max_parts >= 1 =>
        /\ Returned => \A i \in PartSlots : PartOf(i).frees = 0
        /\ pc = "decomp_freed" => \A i \in PartSlots : PartOf(i).frees = 1

\* C3: called with max_parts >= 1, approximate_convex_decomposition returns
\* at most max_parts parts, whatever the mesh and the concavity tolerance.
C3_AtMostMaxParts ==
    (Returned /\ dparams.max_parts >= 1) => decomp.num_parts <= dparams.max_parts

\* C4: each split of a part produces two halves that each hold strictly
\* fewer triangles than the part being split.
C4_HalvesStrictlySmaller ==
    pc = "approx_run" =>
        \A i \in 1..Len(dstack) :
            dstack[i].left # NULL =>
                /\ parts[dstack[i].left].num_triangles < parts[dstack[i].part].num_triangles
                /\ parts[dstack[i].right].num_triangles < parts[dstack[i].part].num_triangles

PartsHolding(t) ==
    {<<i, j>> \in PartSlots \X (1..MaxDecompTriangles) :
        /\ j <= Len(PartOf(i).triangle_indices)
        /\ PartOf(i).triangle_indices[j] = t}

\* C5: in a returned decomposition every part holds at least one triangle
\* and every triangle of the mesh appears in exactly one part; stated for
\* max_parts >= 1.
C5_PartsPartitionTheMesh ==
    (Returned /\ dparams.max_parts >= 1) =>
        /\ \A i \in PartSlots : PartOf(i).num_triangles >= 1
        /\ \A t \in 0..(stl.num_triangles - 1) : Cardinality(PartsHolding(t)) = 1

\* ------------------------------------------------ properties: the BVT build
Allocated == 1..Len(nodes)

C11_DepthCap ==
    \A id \in Allocated :
        /\ nodes[id].depth <= BVH_MAX_DEPTH
        /\ (nodes[id].type = BVH_LEAF /\ nodes[id].depth < BVH_MAX_DEPTH)
              => nodes[id].num_triangles <= max_triangles_per_leaf

C11_LeafExactlyWhen ==
    Len(nodes') > Len(nodes) =>
        LET made == nodes'[Len(nodes')]
        IN /\ made.depth = Top.depth
           /\ made.type \in {BVH_LEAF, BVH_INTERNAL}
           /\ made.type = BVH_LEAF <=>
                (Top.n <= max_triangles_per_leaf \/ Top.depth >= BVH_MAX_DEPTH)

\* C11: bvh_build_recursive makes the node it allocates a leaf exactly when
\* the candidate count is <= max_triangles_per_leaf or the depth has reached
\* 20; no node is deeper than 20 and a leaf above depth 20 holds at most
\* max_triangles_per_leaf triangles.
C11_LeafRule == [](C11_DepthCap) /\ [][C11_LeafExactlyWhen]_vars

\* a leaf made by the depth cap alone, next to a leaf made by the count
C11_Witness ==
    /\ \E id \in Allocated :
          /\ nodes[id].type = BVH_LEAF
          /\ nodes[id].depth = BVH_MAX_DEPTH
          /\ nodes[id].num_triangles > max_triangles_per_leaf
    /\ \E id \in Allocated : nodes[id].type = BVH_INTERNAL

ReleasedOnce(id) ==
    /\ nodes[id].frees = 1
    /\ nodes[id].idx_frees = (IF nodes[id].has_indices THEN 1 ELSE 0)

NeverReleased(id) == nodes[id].frees = 0 /\ nodes[id].idx_frees = 0

C12_AllReleased ==
    /\ (Building /\ stack = <<>> /\ ret = NULL) => \A id \in Allocated : ReleasedOnce(id)
    /\ pc = "bvh_null" =>
          /\ \A id \in Allocated : ReleasedOnce(id)
          /\ bvh.frees = bvh.allocs
          /\ bvh.status # "live"
          /\ tmp_frees = (IF triangle_indices # <<>> THEN 1 ELSE 0)
    /\ pc = "bvh_ok" =>
          /\ \A id \in Allocated : NeverReleased(id)
          /\ bvh.frees = 0
          /\ tmp_frees = 1

C12_FailureReturnsNull ==
    oom' < oom => (pc' = "bvh_null" \/ ret' = NULL)

\* C12: an allocation failure anywhere in bvh_create's build makes the
\* failing call return NULL, a NULL root makes bvh_create return NULL, and
\* then every node, leaf index array, the tree header and the temporary index
\* array have been released exactly once; a returned tree has lost nothing.
C12_FailureCleanup == [](C12_AllReleased) /\ [][C12_FailureReturnsNull]_vars

\* an allocation failed below a partly built subtree and bvh_create returned
C12_Witness ==
    /\ pc = "bvh_null"
    /\ max_triangles_per_leaf >= 1
    /\ \E id \in Allocated : nodes[id].type = BVH_INTERNAL
    /\ \E id \in Allocated : nodes[id].type = BVH_LEAF /\ nodes[id].idx_frees = 1

\* no allocation has failed yet: the whole failure budget is still there
NoFailureYet == oom = MaxAllocFailures

C13_NullOnlyForCause ==
    (pc = "bvh_null" /\ NoFailureYet) =>
        (stl.is_null \/ stl.num_triangles = 0 \/ max_triangles_per_leaf = 0)

C13_BuiltTree ==
    pc = "bvh_ok" =>
        /\ ~stl.is_null
        /\ stl.num_triangles >= 1
        /\ bvh.root # NULL
        /\ TreeNodes(bvh.root) = Allocated
        /\ \A id \in Allocated :
              /\ NeverReleased(id)
              /\ nodes[id].type = BVH_LEAF =>
                    /\ nodes[id].num_triangles >= 1
                    /\ nodes[id].has_indices
                    /\ Len(nodes[id].triangle_indices) = nodes[id].num_triangles
              /\ nodes[id].type = BVH_INTERNAL =>
                    /\ nodes[id].left # NULL
                    /\ nodes[id].right # NULL
                    /\ nodes[id].left # nodes[id].right

C13_FailedStepReturnsNull ==
    (oom' < oom /\ pc' # "bvh_null") => (ret' = NULL /\ Len(stack') < Len(stack))

\* C13: with max_triangles_per_leaf >= 1 bvh_create returns NULL only when
\* the mesh is absent or empty or an allocation failed, and it does return
\* NULL then; a returned tree has no released or stray node, every leaf of
\* it holds at least one triangle and every internal node two children.
C13_NullIffCause ==
    [](C13_NullOnlyForCause /\ C13_BuiltTree) /\ [][C13_FailedStepReturnsNull]_vars

\* a tree of two levels of internal nodes returned for leaf size >= 1
C13_Witness ==
    /\ pc = "bvh_ok"
    /\ max_triangles_per_leaf >= 1
    /\ nodes[bvh.root].type = BVH_INTERNAL
    /\ nodes[nodes[bvh.root].right].type = BVH_INTERNAL

\* ------------------------------------------------ properties: region query
RECURSIVE Descend(_, _)
Descend(id, qb) ==
    IF id = NULL \/ ~bvh_intersects_bounds(nodes[id].bounds, qb) THEN {}
    ELSE IF nodes[id].type = BVH_INTERNAL
    THEN Descend(nodes[id].left, qb) \cup Descend(nodes[id].right, qb)
    ELSE {nodes[id].triangle_indices[i] : i \in 1..Len(nodes[id].triangle_indices)}

\* C14: a region query returns the triangle indices of every leaf of the
\* owned BVT whose box intersects the query box, pruning the other subtrees.
C14_RegionQueryCollectsLeaves ==
    query.called =>
        /\ {query.result[i] : i \in 1..Len(query.result)} = Descend(bvh.root, query.bounds)
        /\ query.num_triangles = Len(query.result)

\* ------------------------------------ properties: failures in a decomposer
AllocationFailed == oom < oom_budget

\* C15: a decomposition call in which an allocation failed returns the
\* failure indicator with every part and the decomposition released; it never
\* returns a Decomposition; stated for max_parts >= 1.
C15_FailureIsFatal ==
    (AllocationFailed /\ dparams.max_parts >= 1) =>
        /\ ~Returned
        /\ pc = "decomp_null" =>
              /\ decomp.status # "live"
              /\ \A id \in 1..Len(parts) : parts[id].frees = 1

\* ------------------------------- properties: spatial_partition_create fails
\* C16: spatial_partition_create returns NULL for num_partitions = 0, an
\* empty mesh or a failed allocation; it then has released each block it
\* allocated exactly once and has not read the owned-BVT pointer before that
\* pointer was assigned.
C16_FailurePathsClean ==
    /\ pc # "part_fault"
    /\ partition.status = "freed" => partition.bvh_set
    /\ pc = "part_null" =>
          /\ partition.status # "live"
          /\ partition.frees <= 1
          /\ partition.ids_frees <= 1
          /\ partition.bounds_frees <= 1
          /\ \A id \in Allocated : ReleasedOnce(id)
    /\ (pc = "part_ok" /\ ~query.called) =>
          (~AllocationFailed /\ stl.num_triangles >= 1 /\ partition.num_partitions >= 1)

\* ------------------------------------------ properties: the voxel strategy
VoxelCells == {CellAt(k, dparams.voxel_size) : k \in 0..(NumCells(dparams.voxel_size) - 1)}
CellTriangles(c) == TrianglesInCell(0, c, dparams.voxel_size)
Qualifies(c) ==
    Len(CellTriangles(c)) >= dparams.min_triangles_per_voxel /\ Len(CellTriangles(c)) >= 1
PartsOfCell(c) == {i \in PartSlots : PartOf(i).triangle_indices = CellTriangles(c)}
RECURSIVE SumTriangles(_)
SumTriangles(ids) ==
    IF ids = <<>> THEN 0 ELSE parts[Head(ids)].num_triangles + SumTriangles(Tail(ids))

\* C17: the voxel strategy returns exactly one part per grid cell that holds
\* at least min_triangles_per_voxel (and at least one) triangle centres, the
\* part holding exactly that cell's triangles; the other triangles are in no
\* part, so the parts hold fewer triangles than the mesh when an occupied
\* cell is below the threshold.
C17_OnePartPerQualifyingCell ==
    pc = "voxel_ok" =>
        /\ \A c \in VoxelCells : Cardinality(PartsOfCell(c)) = (IF Qualifies(c) THEN 1 ELSE 0)
        /\ decomp.num_parts = Cardinality({c \in VoxelCells : Qualifies(c)})
        /\ \A i \in PartSlots : PartOf(i).num_triangles = Len(PartOf(i).triangle_indices)
        /\ (\E c \in VoxelCells : CellTriangles(c) # <<>> /\ ~Qualifies(c))
              => SumTriangles(decomp.parts) < stl.num_triangles

\* ------------------------------------ properties: the hierarchical strategy
C18_EmitExactlyWhen ==
    (pc = "hier_run" /\ dstack # <<>> /\ DTop.pc = "call" /\ dstack' # dstack) =>
        ((decomp'.num_parts = decomp.num_parts + 1)
            <=> (DTop.depth >= dparams.max_depth
                    \/ parts[DTop.part].num_triangles < MIN_SPLIT_TRIANGLES))

C18_PartCount ==
    pc = "hier_ok" =>
        /\ decomp.num_parts <= 2 ^ dparams.max_depth
        /\ dparams.max_depth = 0 =>
              /\ decomp.num_parts = 1
              /\ PartOf(1).triangle_indices = [i \in 1..stl.num_triangles |-> i - 1]

\* C18: hierarchical_split_part emits the part it is given exactly when its
\* depth >= max_depth or it holds fewer than 10 triangles; the result holds
\* at most 2^max_depth parts and, for max_depth = 0, the single part of all
\* triangles.
C18_DepthBoundedEmission == [](C18_PartCount) /\ [][C18_EmitExactlyWhen]_vars

\* ----------------------------------------------- properties: the quality score
ReturnedDecomposition == pc \in {"decomp_ok", "hier_ok", "voxel_ok"}

RECURSIVE SumVolumes(_)
SumVolumes(ids) ==
    IF ids = <<>> THEN 0 ELSE parts[Head(ids)].volume + SumVolumes(Tail(ids))

\* numerator of the population variance of the returned parts' volumes over
\* the denominator 100 * n^3 (volumes are in tenths)
VarianceOfVolumes ==
    SumSquares(parts, decomp.parts, decomp.num_parts, SumVolumes(decomp.parts))

EqualVolumes ==
    \A i, j \in 1..decomp.num_parts :
        parts[decomp.parts[i]].volume = parts[decomp.parts[j]].volume

\* C19: the quality stored in a returned Decomposition is
\* 1 / (1 + population variance of its parts' volumes), lies in (0,1], and is
\* 1 exactly when all parts have the same volume.
C19_QualityIsInverseVariance ==
    ReturnedDecomposition =>
        LET q == decomp.decomposition_quality
            n == decomp.num_parts
        IN /\ q[1] > 0 /\ q[1] <= q[2]
           /\ q[1] * (100 * n * n * n + VarianceOfVolumes) = q[2] * 100 * n * n * n
           /\ (q[1] = q[2]) <=> EqualVolumes

\* ------------------------------------------------- properties: the hull box
\* the values a read of p's hull.bounds can produce: convex_part_create leaves
\* the array unwritten and nothing writes it afterwards
hull_bounds(p) == HullGarbage

\* per-axis min and max over the vertices of the part's own triangles
TriangleBox(p) ==
    BoundsOfTriangles(EmptyBounds,
                      [i \in 1..Len(p.triangle_indices) |->
                          stl.triangles[p.triangle_indices[i] + 1]])

\* C20: every part of a returned Decomposition carries as hull.bounds the
\* per-axis min and max of its own triangles' vertices, min <= max on every
\* axis.
C20_HullIsTriangleBox ==
    ReturnedDecomposition =>
        \A k \in 1..decomp.num_parts : \A hb \in hull_bounds(PartOf(k)) :
            /\ hb = TriangleBox(PartOf(k))
            /\ \A a \in 1..3 : hb[a] <= hb[a + 3]

\* ------------------------------------- properties: failure of a strategy
StrategyFailed == pc \in {"decomp_null", "hier_null", "voxel_null"}

InvalidInput ==
    \/ stl.is_null
    \/ stl.num_triangles = 0
    \/ pc = "voxel_null" /\ dparams.voxel_size <= 0

PartBox(i) == SubSeq(partition.partition_bounds, i * 6 + 1, i * 6 + 6)

\* C22: partition i of N runs in X from min_x + i*w to min_x + (i+1)*w with
\* w = (max_x - min_x)/N and spans the mesh's Y and Z extent; consecutive
\* partitions share their boundary; the boxes are a function of the mesh and
\* N alone, whatever sort_axis was passed.
C22_BoxesAreXSlabs ==
    pc = "part_ok" =>
        LET N == partition.num_partitions
            min_x == stl.bounds[1]
            max_x == stl.bounds[4]
        IN /\ Len(partition.partition_bounds) = 6 * N
           /\ \A i \in 0..(N - 1) :
                 /\ N * PartBox(i)[1] = N * min_x + i * (max_x - min_x)
                 /\ N * PartBox(i)[4] = N * min_x + (i + 1) * (max_x - min_x)
                 /\ PartBox(i)[2] = stl.bounds[2] /\ PartBox(i)[5] = stl.bounds[5]
                 /\ PartBox(i)[3] = stl.bounds[3] /\ PartBox(i)[6] = stl.bounds[6]
                 /\ i + 1 < N => PartBox(i)[4] = PartBox(i + 1)[1]

C22_Witness ==
    /\ pc = "part_ok"
    /\ partition.num_partitions = 3
    /\ stl.bounds[1] > 0
    /\ PartBox(0)[1] < PartBox(1)[1] /\ PartBox(1)[1] < PartBox(2)[1]
    /\ PartBox(2)[4] = stl.bounds[4]

\* -------------------------------- properties: acceptance of a candidate part
\* volume of the bounding box of the part's triangles, in tenths
C23_HullBoxVolume(p) ==
    LET b == TriangleBox(p)
    IN 10 * (b[4] - b[1]) * (b[5] - b[2]) * (b[6] - b[3])

\* (hull_box_volume - 0.1 * triangle_count) / hull_box_volume clamped to [0,1]
C23_Concavity(p) ==
    LET hv == C23_HullBoxVolume(p)
    IN IF hv <= 0 \/ hv - p.num_triangles < 0 THEN <<0, 1>>
       ELSE <<hv - p.num_triangles, hv>>

C23_AcceptCondition(p) ==
    \/ decomp.num_parts >= dparams.max_parts
    \/ p.num_triangles < MIN_SPLIT_TRIANGLES
    \/ WithinTolerance(C23_Concavity(p), dparams.concavity_tolerance)

C23_Step ==
    (/\ pc = "approx_run" /\ dstack # <<>> /\ DTop.pc = "call"
     /\ parts[DTop.part].num_triangles > 0) =>
        LET p == parts[DTop.part]
            accepted == /\ decomp'.num_parts = decomp.num_parts + 1
                        /\ parts' = parts
            split == Len(parts') = Len(parts) + 2 /\ decomp' = decomp
        IN /\ accepted <=> C23_AcceptCondition(p)
           /\ split <=> ~C23_AcceptCondition(p)

\* C23: approximate_decompose_part accepts the part it is given exactly when
\* the decomposition holds max_parts parts, or the part has fewer than 10
\* triangles, or its concavity (hull box volume against 0.1 per triangle,
\* clamped to [0,1]) is <= concavity_tolerance; otherwise it splits the part.
C23_AcceptExactlyWhen == [][C23_Step]_vars

\* ------------------------------------------- properties: the sort of a split
PositionIn(seq, x) == CHOOSE i \in 1..Len(seq) : seq[i] = x

C24_StableStep ==
    (Building /\ stack # <<>> /\ Top.pc = "call" /\ max_triangles_per_leaf >= 1) =>
        LET old == Segment(triangle_indices, Top.off, Top.n)
            new == Segment(triangle_indices', Top.off, Top.n)
        IN \A i, j \in 1..Len(new) :
              (i < j /\ bvh_compare_triangles(new[i], new[j], Top.depth % 3) = 0)
                  => PositionIn(old, new[i]) < PositionIn(old, new[j])

\* C24: the sort at a split is stable: candidates whose centroid coordinate
\* on the active axis is equal keep their relative order, so a mesh and a
\* leaf size determine the tree; stated for max_triangles_per_leaf >= 1.
C24_SortIsStable == [][C24_StableStep]_vars

\* ------------------------------------------ properties: the split of a node
\* three times the centroid coordinate of triangle index x on axis k (0..2)
CentroidOn(x, k) ==
    stl.triangles[x + 1][1][k + 1] + stl.triangles[x + 1][2][k + 1]
        + stl.triangles[x + 1][3][k + 1]

\* the first `lower` entries of seg are not above the others on axis k
LowerBelowUpper(seg, lower, k) ==
    \A i \in 1..lower : \A j \in (lower + 1)..Len(seg) :
        CentroidOn(seg[i], k) <= CentroidOn(seg[j], k)

IsHalf(m, n) == 2 * m <= n /\ n < 2 * m + 2

\* the call of the left child
C25_LeftCall ==
    (Building /\ stack # <<>> /\ Top.pc = "call" /\ Len(stack') = Len(stack) + 1) =>
        LET f == Top
            child == stack'[Len(stack')]
        IN /\ IsHalf(child.n, f.n)
           /\ child.off = f.off
           /\ child.depth = f.depth + 1
           /\ LowerBelowUpper(Segment(triangle_indices', f.off, f.n), child.n, f.depth % 3)

\* the call of the right child
C25_RightCall ==
    (Building /\ stack # <<>> /\ Top.pc = "left" /\ Len(stack') = Len(stack) + 1) =>
        LET f == Top
            child == stack'[Len(stack')]
        IN /\ IsHalf(f.n - child.n, f.n)
           /\ child.off = f.off + (f.n - child.n)
           /\ child.depth = f.depth + 1
           /\ LowerBelowUpper(Segment(triangle_indices', f.off, f.n), f.n - child.n,
                              f.depth % 3)

MaxExtentAxes(b) ==
    {a \in 0..2 : \A c \in 0..2 : b[a + 4] - b[a + 1] >= b[c + 4] - b[c + 1]}

BelowMidpoint(t, b, a) == 2 * Center3(stl.triangles[t + 1], a) < 3 * (b[a + 1] + b[a + 4])

C26_SplitStep ==
    (/\ pc \in {"approx_run", "hier_run"} /\ dstack # <<>> /\ DTop.pc = "call"
     /\ Len(parts') = Len(parts) + 2) =>
        LET p == parts[DTop.part]
            b == TriangleBox(p)
            L == parts'[Len(parts) + 1]
            R == parts'[Len(parts) + 2]
            below(t) == \E a \in MaxExtentAxes(b) : BelowMidpoint(t, b, a)
            called == dstack'[Len(dstack')]
        IN /\ \E a \in MaxExtentAxes(b) :
                 /\ L.triangle_indices =
                        SelectSeq(p.triangle_indices, LAMBDA t : BelowMidpoint(t, b, a))
                 /\ R.triangle_indices =
                        SelectSeq(p.triangle_indices, LAMBDA t : ~BelowMidpoint(t, b, a))
           /\ (Len(dstack') = Len(dstack) + 1) => parts'[called.part].num_triangles > 0

\* C26: a part that is split is split on an axis of maximal extent of the
\* bounding box of its triangles, at the box midpoint on that axis: triangles
\* whose centroid is below the midpoint go left, the others right, and only a
\* non-empty half is recursed on.
C26_SplitOnLongestAxis == [][C26_SplitStep]_vars

\* ------------------------------------------- properties: the summed volume
\* C27: in every live Decomposition total_volume is the sum of the volumes
\* of the parts it holds, and each held part's volume is 0.1 times its
\* triangle count (volumes are in tenths); stated for max_parts >= 1 in the
\* approximate strategy.
C27_TotalVolumeIsSum ==
    (/\ decomp.status = "live"
     /\ pc \in {"approx_run", "decomp_ok"} => dparams.max_parts >= 1) =>
        /\ decomp.total_volume = SumVolumes(decomp.parts)
        /\ \A i \in PartSlots : PartOf(i).volume = PartOf(i).num_triangles

\* ----------------------- properties: the parts of the hierarchical strategy
\* C28: in the Decomposition that hierarchical_decomposition returns when no
\* allocation failed every part holds at least one triangle and every
\* triangle of the mesh is in exactly one part.
C28_HierPartsPartitionTheMesh ==
    (pc = "hier_ok" /\ ~AllocationFailed) =>
        /\ \A i \in PartSlots : PartOf(i).num_triangles >= 1
        /\ \A i \in PartSlots : PartOf(i).frees = 0
        /\ \A t \in 0..(stl.num_triangles - 1) : Cardinality(PartsHolding(t)) = 1

C28_Witness ==
    /\ pc = "hier_ok"
    /\ ~AllocationFailed
    /\ decomp.num_parts = 2
    /\ PartOf(1).num_triangles > PartOf(2).num_triangles
    /\ PartOf(2).num_triangles >= 1

\* --------------------------------------- properties: growth of the containers
\* C29: in every reachable state no live part holds more triangle indices
\* than its capacity, the decomposition holds no more parts than its
\* capacity, and no add has written outside its allocation, also for a
\* container created with capacity 0.
C29_AddsStayInside ==
    /\ \A id \in 1..Len(parts) :
          parts[id].frees = 0 =>
              /\ parts[id].num_triangles <= parts[id].capacity
              /\ parts[id].writes_outside = 0
    /\ decomp.status = "live" =>
          /\ decomp.num_parts <= decomp.capacity
          /\ decomp.writes_outside = 0

\* ------------------------------------------- properties: leaf size zero
BuiltWithLeafSizeZero ==
    /\ max_triangles_per_leaf = 0
    /\ ~stl.is_null
    /\ stl.num_triangles >= 1
    /\ ~AllocationFailed

\* a candidate of one triangle below the depth cap is split into an empty
\* left half
C30_EmptyLeftHalf ==
    (/\ pc = "bvh_build" /\ BuiltWithLeafSizeZero /\ stack # <<>>
     /\ Top.pc = "call" /\ Top.n = 1 /\ Top.depth < BVH_MAX_DEPTH) =>
        /\ Len(stack') = Len(stack) + 1
        /\ stack'[Len(stack')].n = 0

C30_ReturnsNull ==
    BuiltWithLeafSizeZero =>
        /\ pc # "bvh_ok"
        /\ pc = "bvh_null" =>
              /\ bvh.status = "freed"
              /\ tmp_frees = 1
              /\ \A id \in Allocated : ReleasedOnce(id)

\* C30: bvh_create with max_triangles_per_leaf = 0 on a non-empty mesh
\* returns NULL although no allocation failed, a one-triangle candidate
\* below the depth cap being split into an empty left half, and every node
\* built before that is released.
C30_LeafSizeZeroFails == [](C30_ReturnsNull) /\ [][C30_EmptyLeftHalf]_vars

C30_Witness ==
    /\ pc = "bvh_null"
    /\ BuiltWithLeafSizeZero
    /\ stl.num_triangles >= 2
    /\ \E id \in Allocated : nodes[id].type = BVH_LEAF /\ nodes[id].depth = BVH_MAX_DEPTH
    /\ \A id \in Allocated : ReleasedOnce(id)

====
